---------------------------- MODULE Spec2Model ----------------------------
(***************************************************************************)
(* Model of src/tts/edge-tts.py: the batch runner batch_text_to_speech     *)
(* with the synthesizer text_to_speech it calls (specification Spec), and  *)
(* the output reconciler update_audio_list (specification ListSpec).       *)
(*                                                                         *)
(* JSON values are tagged records.  A JSON text is identified with the     *)
(* value json.loads gives for it; the texts json.loads rejects are one     *)
(* input, Unparsable.  Python's None is the empty option.                  *)
(***************************************************************************)
EXTENDS Integers, Sequences, FiniteSets, TLC

VARIABLES
    json_input,        \* batch_text_to_speech: the json_input argument
    default_voice,     \* the default_voice argument
    default_rate,      \* the default_rate argument
    default_pitch,     \* the default_pitch argument
    pc,                \* position of the generator: "parse", "loop", "done"
    tasks,             \* the parsed list (line 46)
    total_tasks,       \* line 51
    i,                 \* index of the task the loop of line 56 takes next
    results,           \* line 54
    generated_files,   \* line 55
    events,            \* the tuples yielded so far, oldest first
    synth_calls,       \* the calls of text_to_speech made so far
    engine_calls,      \* the edge_tts.Communicate requests made so far
    made_dirs,         \* directories os.makedirs was asked to create
    written,           \* paths communicate.save has written
    l_pc,              \* update_audio_list: "call" or "returned"
    dir_exists,        \* os.path.exists(output_dir)
    dir_entries,       \* os.listdir(output_dir)
    l_json_input,      \* the json_input argument of update_audio_list
    l_result           \* the list update_audio_list returned

batch_vars == <<json_input, default_voice, default_rate, default_pitch, pc,
                tasks, total_tasks, i, results, generated_files, events,
                synth_calls, engine_calls, made_dirs, written>>
list_vars == <<l_pc, dir_exists, dir_entries, l_json_input, l_result>>
vars == <<batch_vars, list_vars>>

(***************************************************************************)
(* Bounds of the model.                                                    *)
(***************************************************************************)
MaxTasks == 3

(***************************************************************************)
(* Values.                                                                 *)
(***************************************************************************)
None == <<>>
Some(x) == <<x>>

JNull == [t |-> "null"]
JInt(n) == [t |-> "int", n |-> n]
JStr(s) == [t |-> "str", s |-> s]
JObj(o) == [t |-> "obj", o |-> o]
JArr(a) == [t |-> "arr", a |-> a]

\* A JSON text: the empty string, a text json.loads rejects, or the text of v
EmptyText == [valid |-> FALSE, empty |-> TRUE]
Unparsable == [valid |-> FALSE, empty |-> FALSE]
JsonText(v) == [valid |-> TRUE, empty |-> FALSE, value |-> v]

OUTPUT_DIR == "output_audio"
AriaLabel == "en-US-AriaNeural - en-US (Female)"
GuyLabel == "en-US-GuyNeural - en-US (Male)"

(***************************************************************************)
(* String primitives, tabulated over the strings the inputs use.           *)
(***************************************************************************)
\* needle in hay, for two Python strings
StrContains(needle, hay) ==
    \/ needle = hay
    \/ hay = "text file_name" /\ needle \in {"text", "file_name"}

\* not text.strip()
IsBlank(s) == s \in {"", " "}

\* voice.split(" - ")[0]
ShortName(label) ==
    CASE label = AriaLabel -> "en-US-AriaNeural"
      [] label = GuyLabel -> "en-US-GuyNeural"
      [] OTHER -> label

\* f"{n:+d}"
SignedStr(n) == IF n >= 0 THEN "+" \o ToString(n) ELSE "-" \o ToString(0 - n)

\* bool(v) of a Python value
Truthy(v) ==
    CASE v.t = "null" -> FALSE
      [] v.t = "str" -> v.s # ""
      [] v.t = "int" -> v.n # 0
      [] v.t = "arr" -> v.a # <<>>
      [] OTHER -> DOMAIN v.o # {}

(***************************************************************************)
(* text_to_speech, up to the request it makes of the engine.               *)
(***************************************************************************)
Raise(exc) == [kind |-> "raise", exc |-> exc]
ReturnError(msg) == [kind |-> "return", audio |-> None, error |-> Some(msg)]

EngineRequest(text, voice, rate, pitch, output_dir, file_name) ==
    [kind |-> "engine",
     text |-> text.s,
     voice |-> ShortName(voice.s),
     rate |-> SignedStr(rate.n) \o "%",
     pitch |-> SignedStr(pitch.n) \o "Hz",
     makedirs |-> Truthy(file_name),
     output_path |-> IF Truthy(file_name)
                     THEN output_dir \o "/" \o file_name.s
                     ELSE "tmp.mp3"]

TextToSpeech(text, voice, rate, pitch, output_dir, file_name) ==
    IF text.t # "str" THEN Raise("AttributeError")
    ELSE IF IsBlank(text.s) THEN ReturnError("Please enter text to convert.")
    ELSE IF ~Truthy(voice) THEN ReturnError("Please select a voice.")
    ELSE IF voice.t # "str" THEN Raise("AttributeError")
    ELSE IF rate.t # "int" THEN Raise("TypeError")
    ELSE IF pitch.t # "int" THEN Raise("TypeError")
    ELSE IF Truthy(file_name) /\ file_name.t # "str" THEN Raise("TypeError")
    ELSE EngineRequest(text, voice, rate, pitch, output_dir, file_name)

\* What the engine may do with a request: edge_tts.Communicate(...) may reject
\* it, communicate.save(...) may fail, or the audio is written.
EngineOutcomes == {"ok", "communicate_raises", "save_raises"}

(***************************************************************************)
(* batch_text_to_speech.                                                   *)
(***************************************************************************)
\* isinstance(tasks, list)
IsList(v) == v.t = "arr"

\* key in task raises TypeError for a task that is no container
MembershipRaises(task) == task.t \in {"null", "int"}

\* key in task
KeyIn(key, task) ==
    CASE task.t = "obj" -> key \in DOMAIN task.o
      [] task.t = "str" -> StrContains(key, task.s)
      [] task.t = "arr" -> \E k \in 1..Len(task.a) : task.a[k] = JStr(key)
      [] OTHER -> FALSE

\* "text" not in task or "file_name" not in task
MissingRequired(task) == ~KeyIn("text", task) \/ ~KeyIn("file_name", task)

\* task.get(key, default)
TaskGet(task, key, default) ==
    IF key \in DOMAIN task.o THEN task.o[key] ELSE default

\* ErrorLine numbering the items from 1, as the progress counter does
ErrorLineOneBased(idx, msg) ==
    [line |-> "Error in item", item |-> idx + 1, msg |-> msg]

\* f"Error in item {i}: {msg}" and f"Successfully generated: {file_name}"
ErrorLine(idx, msg) == [line |-> "Error in item", item |-> idx, msg |-> msg]
SuccessLine(file_name) == [line |-> "Successfully generated", file |-> file_name]

\* yield results, None, generated_files, current, total
ProgressEvent(res, files, current, total) ==
    [results |-> Some(res), error |-> None, generated_files |-> files,
     current |-> current, total |-> total]

\* FailureEvent with the message in the place of the results
FailureEventMisplaced(msg) ==
    [results |-> Some(<<msg>>), error |-> None, generated_files |-> <<>>,
     current |-> 0, total |-> 0]

\* yield None, message, [], 0, 0
FailureEvent(msg) ==
    [results |-> None, error |-> Some(msg), generated_files |-> <<>>,
     current |-> 0, total |-> 0]

NotListEvent == FailureEvent("Error: JSON input must be a list")
JsonErrorEvent == FailureEvent("JSON parsing error")
BatchErrorEvent == FailureEvent("Error processing batch")

(***************************************************************************)
(* The inputs.                                                             *)
(***************************************************************************)
FullTask == [text |-> JStr("Hi"), file_name |-> JStr("a.mp3")]

TaskValues ==
    { JInt(5), JStr("x"), JStr("text file_name") }
    \cup { JObj(o) : o \in
             { [file_name |-> JStr("a.mp3")],
               [text |-> JStr("Hi")],
               FullTask,
               [text |-> JStr("Yo"), file_name |-> JStr("b.mp3")],
               [text |-> JStr(" "), file_name |-> JStr("a.mp3")],
               [text |-> JNull, file_name |-> JStr("a.mp3")],
               [text |-> JStr("Hi"), file_name |-> JStr("")],
               ("voice" :> JNull) @@ FullTask,
               ("voice" :> JStr(GuyLabel)) @@ FullTask,
               ("rate" :> JNull) @@ FullTask,
               ("rate" :> JInt(10)) @@ FullTask,
               ("pitch" :> JInt(0 - 5)) @@ FullTask } }

RECURSIVE SeqsUpTo(_, _)
SeqsUpTo(S, n) ==
    IF n = 0 THEN { <<>> }
    ELSE LET shorter == SeqsUpTo(S, n - 1)
         IN shorter \cup { Append(s, x) : s \in { t \in shorter : Len(t) = n - 1 }, x \in S }

JsonInputs ==
    { EmptyText, Unparsable, JsonText(JStr("not a list")), JsonText(JObj(FullTask)) }
    \cup { JsonText(JArr(a)) : a \in SeqsUpTo(TaskValues, MaxTasks) }

ListIdle ==
    /\ l_pc = "idle"
    /\ dir_exists = FALSE
    /\ dir_entries = {}
    /\ l_json_input = None
    /\ l_result = <<>>

Init ==
    /\ json_input \in JsonInputs
    /\ default_voice \in { JStr(AriaLabel), JStr("") }
    /\ default_rate = JInt(0)
    /\ default_pitch = JInt(0)
    /\ pc = "parse"
    /\ tasks = <<>>
    /\ total_tasks = 0
    /\ i = 0
    /\ results = <<>>
    /\ generated_files = <<>>
    /\ events = <<>>
    /\ synth_calls = <<>>
    /\ engine_calls = <<>>
    /\ made_dirs = {}
    /\ written = <<>>
    /\ ListIdle

\* json.loads raises JSONDecodeError (lines 46, 93-94)
ParseJsonError ==
    /\ pc = "parse"
    /\ ~json_input.valid
    /\ events' = Append(events, JsonErrorEvent)
    /\ pc' = "done"
    /\ UNCHANGED <<json_input, default_voice, default_rate, default_pitch,
                   tasks, total_tasks, i, results, generated_files,
                   synth_calls, engine_calls, made_dirs, written, list_vars>>

\* the top-level value is no list (lines 47-49)
ParseNotList ==
    /\ pc = "parse"
    /\ json_input.valid
    /\ ~IsList(json_input.value)
    /\ events' = Append(events, NotListEvent)
    /\ pc' = "done"
    /\ UNCHANGED <<json_input, default_voice, default_rate, default_pitch,
                   tasks, total_tasks, i, results, generated_files,
                   synth_calls, engine_calls, made_dirs, written, list_vars>>

\* lines 46-55
ParseOk ==
    /\ pc = "parse"
    /\ json_input.valid
    /\ IsList(json_input.value)
    /\ tasks' = json_input.value.a
    /\ total_tasks' = Len(json_input.value.a)
    /\ i' = 0
    /\ results' = <<>>
    /\ generated_files' = <<>>
    /\ pc' = "loop"
    /\ UNCHANGED <<json_input, default_voice, default_rate, default_pitch,
                   events, synth_calls, engine_calls, made_dirs, written,
                   list_vars>>

\* except Exception (lines 95-96): the generator yields the failure and ends
Abort ==
    /\ events' = Append(events, BatchErrorEvent)
    /\ pc' = "done"
    /\ UNCHANGED <<json_input, default_voice, default_rate, default_pitch,
                   tasks, total_tasks, i, results, generated_files, list_vars>>

\* a task with a required field missing (lines 61-65)
ItemMissing ==
    /\ pc = "loop"
    /\ i < total_tasks
    /\ ~MembershipRaises(tasks[i + 1])
    /\ MissingRequired(tasks[i + 1])
    /\ results' = Append(results,
           ErrorLine(i, "Missing required fields 'text' or 'file_name'"))
    /\ events' = Append(events,
           ProgressEvent(results', generated_files, i + 1, total_tasks))
    /\ i' = i + 1
    /\ UNCHANGED <<json_input, default_voice, default_rate, default_pitch, pc,
                   tasks, total_tasks, generated_files, synth_calls,
                   engine_calls, made_dirs, written, list_vars>>

\* the validation of line 61 or a task.get of lines 68-70 raises
ItemInvalid ==
    /\ pc = "loop"
    /\ i < total_tasks
    /\ \/ MembershipRaises(tasks[i + 1])
       \/ /\ ~MembershipRaises(tasks[i + 1])
          /\ ~MissingRequired(tasks[i + 1])
          /\ tasks[i + 1].t # "obj"
    /\ Abort
    /\ UNCHANGED <<synth_calls, engine_calls, made_dirs, written>>

\* The arguments of the call of lines 73-80 for task idx
SynthArgs(task, idx) ==
    [item |-> idx,
     text |-> task.o["text"],
     voice |-> TaskGet(task, "voice", default_voice),
     rate |-> TaskGet(task, "rate", default_rate),
     pitch |-> TaskGet(task, "pitch", default_pitch),
     output_dir |-> OUTPUT_DIR,
     file_name |-> task.o["file_name"]]

SynthOutcome(a) ==
    TextToSpeech(a.text, a.voice, a.rate, a.pitch, a.output_dir, a.file_name)

IsTask(task) ==
    /\ ~MembershipRaises(task)
    /\ ~MissingRequired(task)
    /\ task.t = "obj"

\* text_to_speech returns an error before it reaches the engine (lines 19-22, 82-83, 89)
ItemRejected ==
    /\ pc = "loop"
    /\ i < total_tasks
    /\ IsTask(tasks[i + 1])
    /\ LET a == SynthArgs(tasks[i + 1], i)
           r == SynthOutcome(a)
       IN /\ r.kind = "return"
          /\ synth_calls' = Append(synth_calls, a)
          /\ results' = Append(results, ErrorLine(i, r.error[1]))
          /\ events' = Append(events,
                 ProgressEvent(results', generated_files, i + 1, total_tasks))
    /\ i' = i + 1
    /\ UNCHANGED <<json_input, default_voice, default_rate, default_pitch, pc,
                   tasks, total_tasks, generated_files, engine_calls,
                   made_dirs, written, list_vars>>

\* text_to_speech raises before it reaches the engine (lines 19, 24-26, 33)
ItemRaises ==
    /\ pc = "loop"
    /\ i < total_tasks
    /\ IsTask(tasks[i + 1])
    /\ LET a == SynthArgs(tasks[i + 1], i)
           r == SynthOutcome(a)
       IN /\ r.kind = "raise"
          /\ synth_calls' = Append(synth_calls, a)
    /\ Abort
    /\ UNCHANGED <<engine_calls, made_dirs, written>>

\* the engine writes the audio (lines 27-40, 84-89)
ItemGenerated ==
    /\ pc = "loop"
    /\ i < total_tasks
    /\ IsTask(tasks[i + 1])
    /\ LET a == SynthArgs(tasks[i + 1], i)
           r == SynthOutcome(a)
           fn == tasks[i + 1].o["file_name"].s
       IN /\ r.kind = "engine"
          /\ synth_calls' = Append(synth_calls, a)
          /\ engine_calls' = Append(engine_calls,
                 [item |-> i, request |-> r, outcome |-> "ok"])
          /\ made_dirs' = IF r.makedirs THEN made_dirs \cup {a.output_dir}
                          ELSE made_dirs
          /\ written' = Append(written, r.output_path)
          /\ results' = Append(results, SuccessLine(fn))
          /\ generated_files' = Append(generated_files, fn)
          /\ events' = Append(events,
                 ProgressEvent(results', generated_files', i + 1, total_tasks))
    /\ i' = i + 1
    /\ UNCHANGED <<json_input, default_voice, default_rate, default_pitch, pc,
                   tasks, total_tasks, list_vars>>

\* the engine fails: edge_tts.Communicate (line 27) or communicate.save
\* (line 39) raises, and nothing between there and line 95 catches it
ItemEngineFails ==
    /\ pc = "loop"
    /\ i < total_tasks
    /\ IsTask(tasks[i + 1])
    /\ \E outcome \in EngineOutcomes \ {"ok"} :
         LET a == SynthArgs(tasks[i + 1], i)
             r == SynthOutcome(a)
         IN /\ r.kind = "engine"
            /\ synth_calls' = Append(synth_calls, a)
            /\ engine_calls' = Append(engine_calls,
                   [item |-> i, request |-> r, outcome |-> outcome])
            /\ made_dirs' = IF r.makedirs /\ outcome = "save_raises"
                            THEN made_dirs \cup {a.output_dir}
                            ELSE made_dirs
    /\ Abort
    /\ UNCHANGED written

\* the final yield (line 92)
Final ==
    /\ pc = "loop"
    /\ i = total_tasks
    /\ events' = Append(events,
           ProgressEvent(results, generated_files, total_tasks, total_tasks))
    /\ pc' = "done"
    /\ UNCHANGED <<json_input, default_voice, default_rate, default_pitch,
                   tasks, total_tasks, i, results, generated_files,
                   synth_calls, engine_calls, made_dirs, written, list_vars>>

Next ==
    \/ ParseJsonError
    \/ ParseNotList
    \/ ParseOk
    \/ ItemMissing
    \/ ItemInvalid
    \/ ItemRejected
    \/ ItemRaises
    \/ ItemGenerated
    \/ ItemEngineFails
    \/ Final

Spec == Init /\ [][Next]_vars

(***************************************************************************)
(* Properties of the batch runner.                                         *)
(***************************************************************************)
ParsedList == json_input.valid /\ json_input.value.t = "arr"
InputLen == Len(json_input.value.a)
InputTask(j) == json_input.value.a[j + 1]
AllObjects == \A j \in 0..(InputLen - 1) : InputTask(j).t = "obj"
LacksRequired(task) ==
    task.t = "obj" /\ ("text" \notin DOMAIN task.o \/ "file_name" \notin DOMAIN task.o)
IsErrorLineOf(line, j) == line.line = "Error in item" /\ line.item = j
IsFailure(ev) == ev.error # None /\ ev.current = 0 /\ ev.total = 0

\* C1: when the input parses to a list of length N, a finished run has emitted
\* exactly N progress events, the k-th with currentIndex = k, then one final
\* event with currentIndex = N, and every event has totalCount = N.
C1_ProgressCardinality ==
    (pc = "done" /\ ParsedList) =>
        /\ Len(events) = InputLen + 1
        /\ \A k \in 1..InputLen : events[k].current = k
        /\ events[InputLen + 1].current = InputLen
        /\ \A k \in 1..Len(events) : events[k].total = InputLen

\* C2: in a finished run over a list of JSON objects, a task at position j that
\* lacks 'text' or 'file_name' and that the loop has reached has no synthesizer
\* call, has the log line "Error in item j: ..." and the progress event
\* (j+1, N), and every task at a later position has been processed (has its own
\* log line and progress event).
C2_MissingFieldIsolated ==
    (pc = "done" /\ ParsedList /\ AllObjects) =>
        \A j \in 0..(InputLen - 1) :
            (LacksRequired(InputTask(j)) /\ j < i) =>
                /\ \A c \in 1..Len(synth_calls) : synth_calls[c].item # j
                /\ IsErrorLineOf(results[j + 1], j)
                /\ events[j + 1].current = j + 1
                /\ events[j + 1].total = InputLen
                /\ \A m \in (j + 1)..(InputLen - 1) :
                       /\ Len(results) > m
                       /\ Len(events) > m
                       /\ events[m + 1].error = None
                       /\ events[m + 1].current = m + 1

\* C3: in a finished batch run, every task whose synthesis failed (the engine
\* call failed, or text_to_speech returned an error) has the log line
\* "Error in item j: ...", its progress event (j+1, N) was emitted, the run went
\* on to the final event (N, N), and the engine was called at most once for it.
C3_SynthesisFailureIsolated ==
    pc = "done" =>
        /\ \A c, d \in 1..Len(engine_calls) :
               engine_calls[c].item = engine_calls[d].item => c = d
        /\ \A c \in 1..Len(synth_calls) :
               LET j == synth_calls[c].item
                   failed ==
                       \/ SynthOutcome(synth_calls[c]).kind = "return"
                       \/ \E d \in 1..Len(engine_calls) :
                              /\ engine_calls[d].item = j
                              /\ engine_calls[d].outcome # "ok"
               IN failed =>
                      /\ Len(results) > j
                      /\ IsErrorLineOf(results[j + 1], j)
                      /\ Len(events) = total_tasks + 1
                      /\ events[j + 1].current = j + 1
                      /\ events[j + 1].total = total_tasks
                      /\ events[total_tasks + 1].error = None
                      /\ events[total_tasks + 1].current = total_tasks

\* C4: when the input is not valid JSON or its top-level value is not a list,
\* the run emits exactly one event, with currentIndex = 0, totalCount = 0, a
\* non-empty error message and an empty generated-files list, and then ends;
\* the synthesizer and the engine are never called and nothing is written.
C4_ParseFailureSingleEvent ==
    ~ParsedList =>
        /\ synth_calls = <<>>
        /\ engine_calls = <<>>
        /\ made_dirs = {}
        /\ written = <<>>
        /\ Len(events) = (IF pc = "done" THEN 1 ELSE 0)
        /\ pc \in {"parse", "done"}
        /\ pc = "done" => ~ENABLED Next
        /\ \A e \in 1..Len(events) :
               /\ events[e].current = 0
               /\ events[e].total = 0
               /\ events[e].error # None
               /\ events[e].error[1] # ""
               /\ events[e].generated_files = <<>>

\* A finished run whose input was valid JSON but a string, not a list
C4_Witness ==
    /\ pc = "done"
    /\ json_input.valid
    /\ json_input.value.t = "str"
    /\ Len(events) = 1

\* C5: a batch-level failure event (error set, currentIndex = 0, totalCount = 0)
\* is never emitted after an event with currentIndex >= 1, and no file has been
\* written before a batch-level failure event.
C5_FailureOnlyBeforeProgress ==
    /\ \A d, e \in 1..Len(events) :
           (d < e /\ events[d].current >= 1) => ~IsFailure(events[e])
    /\ (\E e \in 1..Len(events) : IsFailure(events[e])) => written = <<>>

\* The precedence rule: the task's value if present and non-null, else the default
Resolved(task, key, default) ==
    IF key \in DOMAIN task.o /\ task.o[key] # JNull THEN task.o[key] ELSE default

\* C6: every synthesizer call gets, for each of voice, rate and pitch, the
\* task's value when the key is present with a non-null value and the batch
\* default otherwise, and so never a null when the defaults are set.
C6_OverridePrecedence ==
    \A c \in 1..Len(synth_calls) :
        LET a == synth_calls[c]
            task == tasks[a.item + 1]
        IN /\ a.voice = Resolved(task, "voice", default_voice)
           /\ a.rate = Resolved(task, "rate", default_rate)
           /\ a.pitch = Resolved(task, "pitch", default_pitch)
           /\ a.voice # JNull /\ a.rate # JNull /\ a.pitch # JNull

IsPrefix(s, t) == Len(s) <= Len(t) /\ \A k \in 1..Len(s) : s[k] = t[k]

RECURSIVE SuccessFiles(_)
SuccessFiles(log) ==
    IF log = <<>> THEN <<>>
    ELSE LET rest == SuccessFiles(Tail(log))
         IN IF Head(log).line = "Successfully generated"
            THEN <<Head(log).file>> \o rest
            ELSE rest

LineAbout(line, j) ==
    \/ IsErrorLineOf(line, j)
    \/ /\ line.line = "Successfully generated"
       /\ InputTask(j).t = "obj"
       /\ "file_name" \in DOMAIN InputTask(j).o
       /\ InputTask(j).o["file_name"] = JStr(line.file)

MaxOrder == 3

Mp3Suffix == <<46, 109, 112, 51>>                          \* ".mp3"
FileNameKey == <<102, 105, 108, 101, 95, 110, 97, 109, 101>>  \* "file_name"
Name_a_mp3 == <<97, 46, 109, 112, 51>>                     \* "a.mp3"
Name_ab_mp3 == <<97, 98, 46, 109, 112, 51>>                \* "ab.mp3"
Name_B_mp3 == <<66, 46, 109, 112, 51>>                     \* "B.mp3"
Name_a_txt == <<97, 46, 116, 120, 116>>                    \* "a.txt"
Str_x == <<120>>                                           \* "x"

\* s.endswith(suffix)
EndsWith(s, suffix) ==
    /\ Len(s) >= Len(suffix)
    /\ SubSeq(s, Len(s) - Len(suffix) + 1, Len(s)) = suffix

\* needle in hay, for two strings
IsSubstring(needle, hay) ==
    \E k \in 1..(Len(hay) - Len(needle) + 1) :
        SubSeq(hay, k, k + Len(needle) - 1) = needle

\* s < t, as Python compares two strings
RECURSIVE LexLess(_, _)
LexLess(s, t) ==
    IF t = <<>> THEN FALSE
    ELSE IF s = <<>> THEN TRUE
    ELSE IF Head(s) # Head(t) THEN Head(s) < Head(t)
    ELSE LexLess(Tail(s), Tail(t))

\* Sorted without the sort: the set in some other order (here descending)
RECURSIVE Unsorted(_)
Unsorted(S) ==
    IF S = {} THEN <<>>
    ELSE LET greatest == CHOOSE x \in S : \A y \in S \ {x} : LexLess(y, x)
         IN <<greatest>> \o Unsorted(S \ {greatest})

\* sorted(S)
RECURSIVE Sorted(_)
Sorted(S) ==
    IF S = {} THEN <<>>
    ELSE LET least == CHOOSE x \in S : \A y \in S \ {x} : LexLess(x, y)
         IN <<least>> \o Sorted(S \ {least})

\* set(f for f in os.listdir(output_dir) if f.endswith('.mp3'))
AvailableFiles(entries) == { f \in entries : EndsWith(f, Mp3Suffix) }

\* "file_name" in task
HasFileName(task) ==
    CASE task.t = "obj" -> "file_name" \in DOMAIN task.o
      [] task.t = "str" -> IsSubstring(FileNameKey, task.s)
      [] task.t = "arr" -> \E k \in 1..Len(task.a) : task.a[k] = JStr(FileNameKey)
      [] OTHER -> FALSE

\* x in available_files raises TypeError for an unhashable x
Unhashable(v) == v.t \in {"arr", "obj"}

\* The condition of line 373 raises: the task is no container, it is a container
\* that task["file_name"] cannot index, or the file name is unhashable
TaskRaises(task) ==
    \/ MembershipRaises(task)
    \/ HasFileName(task) /\ task.t # "obj"
    \/ HasFileName(task) /\ task.t = "obj" /\ Unhashable(task.o["file_name"])

\* "file_name" in task and task["file_name"] in available_files
Listed(task, available) ==
    /\ HasFileName(task)
    /\ task.o["file_name"].t = "str"
    /\ task.o["file_name"].s \in available

\* available_files.remove(name)
Remove(available, name) == available \ {name}

\* The loop of lines 372-375 from task k on
RECURSIVE OrderLoop(_, _, _, _)
OrderLoop(list, k, ordered_files, available) ==
    IF k > Len(list) THEN [raised |-> FALSE, ordered |-> ordered_files, rest |-> available]
    ELSE IF TaskRaises(list[k]) THEN [raised |-> TRUE]
    ELSE IF Listed(list[k], available)
         THEN OrderLoop(list, k + 1,
                        Append(ordered_files, list[k].o["file_name"].s),
                        Remove(available, list[k].o["file_name"].s))
         ELSE OrderLoop(list, k + 1, ordered_files, available)

\* if json_input
TextGiven(j) == j # None /\ j[1] # EmptyText

UpdateAudioList(exists, entries, j) ==
    IF ~exists THEN <<>>
    ELSE LET available == AvailableFiles(entries)
         IN IF TextGiven(j) /\ j[1].valid /\ IsList(j[1].value)
            THEN LET r == OrderLoop(j[1].value.a, 1, <<>>, available)
                 IN IF r.raised THEN <<>>
                    ELSE r.ordered \o Sorted(r.rest)
            ELSE Sorted(available)

DirEntryNames == { Name_a_mp3, Name_ab_mp3, Name_B_mp3, Name_a_txt }

OrderValues ==
    { JObj([file_name |-> JStr(n)]) : n \in DirEntryNames }
    \cup { JObj([text |-> JStr(Str_x)]),
           JObj([file_name |-> JNull]),
           JObj([file_name |-> JArr(<<>>)]),
           JInt(5),
           JStr(Str_x),
           JStr(FileNameKey) }

OrderInputs ==
    { None, Some(EmptyText), Some(Unparsable), Some(JsonText(JStr(Str_x))) }
    \cup { Some(JsonText(JArr(a))) : a \in SeqsUpTo(OrderValues, MaxOrder) }

BatchIdle ==
    /\ json_input = EmptyText
    /\ default_voice = JStr("")
    /\ default_rate = JInt(0)
    /\ default_pitch = JInt(0)
    /\ pc = "idle"
    /\ tasks = <<>>
    /\ total_tasks = 0
    /\ i = 0
    /\ results = <<>>
    /\ generated_files = <<>>
    /\ events = <<>>
    /\ synth_calls = <<>>
    /\ engine_calls = <<>>
    /\ made_dirs = {}
    /\ written = <<>>

ListInit ==
    /\ BatchIdle
    /\ l_pc = "call"
    /\ dir_exists \in BOOLEAN
    /\ dir_entries \in (IF dir_exists THEN SUBSET DirEntryNames ELSE { {} })
    /\ l_json_input \in OrderInputs
    /\ l_result = <<>>

\* update_audio_list(json_input=...) runs and returns
Refresh ==
    /\ l_pc = "call"
    /\ l_result' = UpdateAudioList(dir_exists, dir_entries, l_json_input)
    /\ l_pc' = "returned"
    /\ UNCHANGED <<batch_vars, dir_exists, dir_entries, l_json_input>>

ListNext == Refresh

ListSpec == ListInit /\ [][ListNext]_vars

(***************************************************************************)
(* Properties of update_audio_list.                                        *)
(***************************************************************************)
OrderingIsList ==
    /\ l_json_input # None
    /\ l_json_input[1].valid
    /\ l_json_input[1].value.t = "arr"
OrderingList == l_json_input[1].value.a
Mp3OnDisk ==
    IF dir_exists
    THEN { f \in dir_entries :
             Len(f) >= 4 /\ <<f[Len(f) - 3], f[Len(f) - 2], f[Len(f) - 1], f[Len(f)]>> = Mp3Suffix }
    ELSE {}
Range(s) == { s[k] : k \in 1..Len(s) }
NoDuplicates(s) == \A p, q \in 1..Len(s) : s[p] = s[q] => p = q

\* The task at position k of the ordering list names file f
Names(k, f) ==
    /\ OrderingList[k].t = "obj"
    /\ "file_name" \in DOMAIN OrderingList[k].o
    /\ OrderingList[k].o["file_name"] = JStr(f)
IsReferenced(f) == OrderingIsList /\ \E k \in 1..Len(OrderingList) : Names(k, f)
FirstPosition(f) == CHOOSE k \in 1..Len(OrderingList) :
                        Names(k, f) /\ \A m \in 1..(k - 1) : ~Names(m, f)

\* C7: when the ordering JSON parses to a list, the result starts with exactly
\* the names that some task references and that are .mp3 files on disk, each
\* once, in the order of their first appearance in the list, and no such name
\* comes after an unreferenced one.
C7_ReferencedFirstInJsonOrder ==
    (l_pc = "returned" /\ OrderingIsList) =>
        LET referenced == { f \in Mp3OnDisk : IsReferenced(f) }
            n == Cardinality(referenced)
        IN /\ Len(l_result) >= n
           /\ { l_result[k] : k \in 1..n } = referenced
           /\ \A p, q \in 1..n :
                  p < q => FirstPosition(l_result[p]) < FirstPosition(l_result[q])
           /\ \A k \in (n + 1)..Len(l_result) : l_result[k] \notin referenced

C10_ExactlyTheMp3Entries ==
    l_pc = "returned" =>
        /\ dir_exists => (NoDuplicates(l_result) /\ Range(l_result) = Mp3OnDisk)
        /\ l_result = <<>> => (~dir_exists \/ Mp3OnDisk = {})

=============================================================================
